---- MODULE Spec2Model ----
(***************************************************************************)
(* Model of the MarkItDown API gateway (src/main.py): the POST /convert    *)
(* handler, its bearer-token dependency, the scratch directory shared by   *)
(* concurrent requests, the external conversion engine and the logger.     *)
(*                                                                         *)
(* Each request walks through the handler one statement group at a time;   *)
(* a raised exception is kept in exc[r] until the except clause that       *)
(* catches it has run.  Strings that are built by formatting are kept as   *)
(* sequences of fragments, so that "the detail contains the error text"    *)
(* is membership in the sequence.                                          *)
(***************************************************************************)
EXTENDS Integers, Sequences, FiniteSets, TLC

\* ---------------------------------------------------------------- bounds
NumRequests == 2
NumNames == 2

Requests == 1..NumRequests

\* ------------------------------------------------------- program constants
API_TOKEN == "your-secret-token-here"

HTTP_400_BAD_REQUEST == 400
HTTP_401_UNAUTHORIZED == 401
HTTP_403_FORBIDDEN == 403
HTTP_422_UNPROCESSABLE_ENTITY == 422
HTTP_500_INTERNAL_SERVER_ERROR == 500
HTTP_200_OK == 200

None == "None"

\* A path of the scratch directory holds no file, or a file: its bytes and
\* the request whose NamedTemporaryFile call created it.
Absent == [exists |-> FALSE]
ScratchFile(bytes, creator) ==
    [exists |-> TRUE, bytes |-> bytes, creator |-> creator]

\* ------------------------------------------------------------ input sets
\* Authorization header values: no header at all, the configured token, or
\* another token.
NoHeader == "no-authorization-header"
Credentials == {NoHeader, API_TOKEN, "wrong-token"}

\* Filenames are sequences of characters so that splitext can be computed.
Filenames == {<<>>, <<"a", ".", "t">>}

\* Upload bodies (byte sequences).
Contents == {<<7>>, <<7, 8>>}

\* What the engine may raise.
EngineErrors == {"unsupported format"}

Range(s) == {s[i] : i \in DOMAIN s}

\* ------------------------------------------------------------ os.path.splitext
RFind(p, c) ==
    LET hits == {i \in DOMAIN p : p[i] = c}
    IN IF hits = {} THEN 0 ELSE CHOOSE i \in hits : \A j \in hits : j <= i

\* The extension part of os.path.splitext(p): from the last dot, unless that
\* dot only follows leading dots of the base name.
splitext(p) ==
    LET sepIndex == RFind(p, "/")
        dotIndex == RFind(p, ".")
    IN IF /\ dotIndex > sepIndex
          /\ \E j \in (sepIndex + 1)..(dotIndex - 1) : p[j] # "."
       THEN SubSeq(p, dotIndex, Len(p))
       ELSE <<>>

Suffixes == {splitext(f) : f \in Filenames}
Paths == (1..NumNames) \X Suffixes

\* ------------------------------------------------------------ exceptions
NoExc == [type |-> "None", msg |-> <<>>]
OSError(what) == [type |-> "OSError", msg |-> <<what>>]
EngineError(e) == [type |-> "Exception", msg |-> <<e>>]

\* str() of an HTTPException: "<status_code>: <detail>"
HTTPException(status_code, detail) ==
    [type |-> "HTTPException", status_code |-> status_code, detail |-> detail,
     msg |-> <<ToString(status_code), ": ">> \o detail]

ErrorResponse(status_code, detail) ==
    [status_code |-> status_code, detail |-> detail]

NoResponse == [status_code |-> 0]

VARIABLES
    pc,              \* position of each request in the handler
    credentials,     \* the bearer credentials each request presented
    file,            \* the UploadFile of each request: filename, content
    file_content,    \* bytes read from the upload (line 85)
    temp_file,       \* name of the NamedTemporaryFile the request created
    temp_file_path,  \* temp_file.name as saved on line 90
    result,          \* the engine's result object
    exc,             \* the exception in flight
    response,        \* what the caller receives
    fs,              \* the scratch directory: path -> ScratchFile or Absent
    log,             \* logger output, per request, in emission order
    engine_calls     \* calls md_converter.convert has received, per request

vars == <<pc, credentials, file, file_content, temp_file, temp_file_path,
          result, exc, response, fs, log, engine_calls>>

Init ==
    /\ pc = [r \in Requests |-> "idle"]
    /\ credentials = [r \in Requests |-> NoHeader]
    /\ file = [r \in Requests |-> [filename |-> <<>>, content |-> <<>>]]
    /\ file_content = [r \in Requests |-> <<>>]
    /\ temp_file = [r \in Requests |-> None]
    /\ temp_file_path = [r \in Requests |-> None]
    /\ result = [r \in Requests |-> None]
    /\ exc = [r \in Requests |-> NoExc]
    /\ response = [r \in Requests |-> NoResponse]
    /\ fs = [p \in Paths |-> Absent]
    /\ log = [r \in Requests |-> <<>>]
    /\ engine_calls = [r \in Requests |-> <<>>]

\* HTTPBearer() with auto_error: a request without credentials is rejected
\* by the security scheme itself; the status it uses is 403 in FastAPI
\* releases before 0.122 and 401 from then on.
HTTPBearerMissingStatus == {HTTP_403_FORBIDDEN, HTTP_401_UNAUTHORIZED}

\* A POST /convert request arrives with its Authorization header and its
\* upload, and Depends(verify_token) runs, after its own Depends(security).
verify_token(r) ==
    /\ pc[r] = "idle"
    /\ \E c \in Credentials, f \in Filenames, b \in Contents :
          /\ credentials' = [credentials EXCEPT ![r] = c]
          /\ file' = [file EXCEPT ![r] = [filename |-> f, content |-> b]]
    /\ IF credentials'[r] = NoHeader
       THEN \E s \in HTTPBearerMissingStatus :
              /\ response' = [response EXCEPT
                    ![r] = ErrorResponse(s, <<"Not authenticated">>)]
              /\ pc' = [pc EXCEPT ![r] = "done"]
       ELSE IF credentials'[r] # API_TOKEN
       THEN /\ response' = [response EXCEPT
                  ![r] = ErrorResponse(HTTP_401_UNAUTHORIZED,
                                       <<"Invalid authentication token">>)]
            /\ pc' = [pc EXCEPT ![r] = "done"]
       ELSE /\ pc' = [pc EXCEPT ![r] = "check_filename"]
            /\ UNCHANGED response
    /\ UNCHANGED <<file_content, temp_file, temp_file_path, result, exc, fs,
                   log, engine_calls>>

\* Mutant of CheckFilename: the guard of line 74 is missing.
CheckFilename_NoGuard(r) ==
    /\ pc[r] = "check_filename"
    /\ log' = [log EXCEPT ![r] = Append(@,
          [level |-> "info", filename |-> file[r].filename,
           msg |-> <<"Converting file: ">>])]
    /\ pc' = [pc EXCEPT ![r] = "read"]
    /\ UNCHANGED <<credentials, file, file_content, temp_file, temp_file_path,
                   result, exc, response, fs, engine_calls>>

\* Lines 74-81: the filename guard, then the info log line.
CheckFilename(r) ==
    /\ pc[r] = "check_filename"
    /\ IF file[r].filename = <<>>
       THEN /\ response' = [response EXCEPT
                  ![r] = ErrorResponse(HTTP_400_BAD_REQUEST,
                                       <<"No file provided">>)]
            /\ pc' = [pc EXCEPT ![r] = "done"]
            /\ UNCHANGED log
       ELSE /\ log' = [log EXCEPT ![r] = Append(@,
                  [level |-> "info", filename |-> file[r].filename,
                   msg |-> <<"Converting file: ">>])]
            /\ pc' = [pc EXCEPT ![r] = "read"]
            /\ UNCHANGED response
    /\ UNCHANGED <<credentials, file, file_content, temp_file, temp_file_path,
                   result, exc, fs, engine_calls>>

\* Mutant of OuterExcept: line 122 is missing, the error is not logged.
OuterExcept_NoLog(r, e, logged) ==
    /\ log' = [log EXCEPT ![r] = logged]
    /\ exc' = [exc EXCEPT ![r] = e]
    /\ pc' = [pc EXCEPT ![r] = "raise_500"]

\* Lines 121-122: except Exception as e.  The clause catches every
\* exception that leaves the outer try body, the HTTPException raised on
\* line 116 included, and logs it; lines 123-126 follow in their own step.
\* logged is the request's log at the moment the exception is caught.
OuterExcept(r, e, logged) ==
    /\ log' = [log EXCEPT ![r] = Append(logged,
          [level |-> "error", filename |-> file[r].filename,
           msg |-> <<"Error processing file: ">> \o e.msg])]
    /\ exc' = [exc EXCEPT ![r] = e]
    /\ pc' = [pc EXCEPT ![r] = "raise_500"]

\* Line 85: await file.read().
ReadUpload(r) ==
    /\ pc[r] = "read"
    /\ \/ /\ file_content' = [file_content EXCEPT ![r] = file[r].content]
          /\ pc' = [pc EXCEPT ![r] = "create"]
          /\ UNCHANGED <<exc, log>>
       \/ /\ OuterExcept(r, OSError("read failed"), log[r])
          /\ UNCHANGED file_content
    /\ UNCHANGED <<credentials, file, temp_file, temp_file_path, result,
                   response, fs, engine_calls>>

\* Mutant of FreshPaths: the file is opened without O_EXCL, so a name in
\* use can be handed out again.
FreshPaths_NoExcl(suffix) == {p \in Paths : p[2] = suffix}

\* The names tempfile may give a new file with this suffix: mkstemp opens
\* with O_EXCL, so a name that exists in the directory is never handed out.
FreshPaths(suffix) == {p \in Paths : p[2] = suffix /\ ~fs[p].exists}

\* Line 88: tempfile.NamedTemporaryFile(delete=False, suffix=...) creates an
\* empty file, or raises (no usable name, no descriptor, no directory).
CreateTemp(r) ==
    /\ pc[r] = "create"
    /\ \/ \E p \in FreshPaths(splitext(file[r].filename)) :
             /\ fs' = [fs EXCEPT ![p] = ScratchFile(<<>>, r)]
             /\ temp_file' = [temp_file EXCEPT ![r] = p]
             /\ pc' = [pc EXCEPT ![r] = "write"]
             /\ UNCHANGED <<exc, log>>
       \/ /\ OuterExcept(r, OSError("cannot create temporary file"), log[r])
          /\ UNCHANGED <<fs, temp_file>>
    /\ UNCHANGED <<credentials, file, file_content, temp_file_path, result,
                   response, engine_calls>>

\* Lines 89-90 and the end of the with block: write, remember the name,
\* close.  A failed write leaves the file (delete=False) holding a proper
\* prefix of the bytes, and line 90 is not reached.
WriteTemp(r) ==
    /\ pc[r] = "write"
    /\ \/ /\ fs' = [fs EXCEPT ![temp_file[r]] = ScratchFile(file_content[r], r)]
          /\ temp_file_path' = [temp_file_path EXCEPT ![r] = temp_file[r]]
          /\ pc' = [pc EXCEPT ![r] = "convert"]
          /\ UNCHANGED <<exc, log>>
       \/ /\ \E k \in 0..(Len(file_content[r]) - 1) :
                fs' = [fs EXCEPT ![temp_file[r]] =
                          ScratchFile(SubSeq(file_content[r], 1, k), r)]
          /\ OuterExcept(r, OSError("No space left on device"), log[r])
          /\ UNCHANGED temp_file_path
    /\ UNCHANGED <<credentials, file, file_content, temp_file, result,
                   response, engine_calls>>

\* The engine's result for the bytes it read: a function of the bytes (the
\* engine is deterministic), with a text of another length than the input
\* and a title only for some inputs.
MarkItDown(bytes) ==
    [text_content |-> <<"#">> \o [i \in DOMAIN bytes |-> ToString(bytes[i])],
     title |-> IF bytes = <<>> THEN None ELSE "Report"]

\* Line 94: md_converter.convert(temp_file_path).  The engine is opaque: it
\* opens the path it is given and returns a result or raises.
Convert(r) ==
    /\ pc[r] = "convert"
    /\ LET p == temp_file_path[r]
       IN \/ /\ fs[p].exists
             /\ result' = [result EXCEPT ![r] = MarkItDown(fs[p].bytes)]
             /\ engine_calls' = [engine_calls EXCEPT ![r] = Append(@,
                   [path |-> p, read |-> fs[p], raised |-> None])]
             /\ pc' = [pc EXCEPT ![r] = "unlink"]
             /\ UNCHANGED exc
          \/ /\ \E e \in EngineErrors :
                   /\ exc' = [exc EXCEPT ![r] = EngineError(e)]
                   /\ engine_calls' = [engine_calls EXCEPT ![r] = Append(@,
                         [path |-> p, read |-> fs[p], raised |-> e])]
             /\ pc' = [pc EXCEPT ![r] = "inner_except"]
             /\ UNCHANGED result
    /\ UNCHANGED <<credentials, file, file_content, temp_file, temp_file_path,
                   response, fs, log>>

\* Lines 99-108: the success body.
SuccessResponse(r) ==
    [status_code |-> HTTP_200_OK,
     success |-> TRUE,
     filename |-> file[r].filename,
     file_size |-> Len(file_content[r]),
     markdown |-> result[r].text_content,
     metadata |-> [title |-> result[r].title,
                   content_length |-> Len(result[r].text_content)]]

\* Lines 97-108: os.unlink(temp_file_path), then return the body.  unlink
\* raises when the file is gone or cannot be removed.
UnlinkAndReturn(r) ==
    /\ pc[r] = "unlink"
    /\ \/ /\ fs[temp_file_path[r]].exists
          /\ fs' = [fs EXCEPT ![temp_file_path[r]] = Absent]
          /\ response' = [response EXCEPT ![r] = SuccessResponse(r)]
          /\ pc' = [pc EXCEPT ![r] = "done"]
          /\ UNCHANGED exc
       \/ /\ exc' = [exc EXCEPT ![r] = OSError("unlink failed")]
          /\ pc' = [pc EXCEPT ![r] = "inner_except"]
          /\ UNCHANGED <<fs, response>>
    /\ UNCHANGED <<credentials, file, file_content, temp_file, temp_file_path,
                   result, log, engine_calls>>

\* Lines 116-119: the HTTPException the inner except clause raises.
ConversionFailure(r) ==
    HTTPException(HTTP_422_UNPROCESSABLE_ENTITY,
                  <<"Failed to convert file: ">> \o exc[r].msg)

\* Mutant of InnerExcept: a failed conversion is tried again.
InnerExcept_Retry(r) ==
    /\ pc[r] = "inner_except"
    /\ pc' = [pc EXCEPT ![r] = "convert"]
    /\ exc' = [exc EXCEPT ![r] = NoExc]
    /\ UNCHANGED <<credentials, file, file_content, temp_file, temp_file_path,
                   result, response, fs, log, engine_calls>>

\* Lines 110-119: except Exception as conversion_error.  The clause catches
\* whatever the inner try raised (the engine's error or the unlink's), and
\* what it raises itself leaves the inner try statement.
InnerExcept(r) ==
    /\ pc[r] = "inner_except"
    /\ \/ /\ fs' = [fs EXCEPT ![temp_file_path[r]] = Absent]
          /\ OuterExcept(r, ConversionFailure(r), Append(log[r],
                [level |-> "error", filename |-> file[r].filename,
                 msg |-> <<"Conversion error: ">> \o exc[r].msg]))
       \/ /\ fs[temp_file_path[r]].exists
          /\ OuterExcept(r, OSError("unlink failed"), log[r])
          /\ UNCHANGED fs
    /\ UNCHANGED <<credentials, file, file_content, temp_file, temp_file_path,
                   result, response, engine_calls>>

\* Mutant of RaiseInternalError: the detail drops str(e).
RaiseInternalError_NoDetail(r) ==
    /\ pc[r] = "raise_500"
    /\ response' = [response EXCEPT
          ![r] = ErrorResponse(HTTP_500_INTERNAL_SERVER_ERROR,
                               <<"Internal server error">>)]
    /\ pc' = [pc EXCEPT ![r] = "done"]
    /\ UNCHANGED <<credentials, file, file_content, temp_file, temp_file_path,
                   result, exc, fs, log, engine_calls>>

\* Lines 123-126: the error leaves the handler as a 500.
RaiseInternalError(r) ==
    /\ pc[r] = "raise_500"
    /\ response' = [response EXCEPT
          ![r] = ErrorResponse(HTTP_500_INTERNAL_SERVER_ERROR,
                               <<"Internal server error: ">> \o exc[r].msg)]
    /\ pc' = [pc EXCEPT ![r] = "done"]
    /\ UNCHANGED <<credentials, file, file_content, temp_file, temp_file_path,
                   result, exc, fs, log, engine_calls>>

Next ==
    \E r \in Requests :
        \/ verify_token(r)
        \/ CheckFilename(r)
        \/ ReadUpload(r)
        \/ CreateTemp(r)
        \/ WriteTemp(r)
        \/ Convert(r)
        \/ UnlinkAndReturn(r)
        \/ InnerExcept(r)
        \/ RaiseInternalError(r)

Spec == Init /\ [][Next]_vars

\* ---------------------------------------------------------------- claims
Done(r) == pc[r] = "done"

\* The engine calls of request r that raised / that returned.
EngineRaised(r) ==
    {engine_calls[r][i].raised : i \in DOMAIN engine_calls[r]} \ {None}
EngineReturned(r) ==
    \E i \in DOMAIN engine_calls[r] : engine_calls[r][i].raised = None

\* The request still has the scratch file it created.
ScratchFileLeft(r) ==
    /\ temp_file[r] # None
    /\ fs[temp_file[r]].exists
    /\ fs[temp_file[r]].creator = r

UnlinkFailed(r) == "unlink failed" \in Range(exc[r].msg)

\* C1: when the engine raises, the caller receives status 422 and a detail
\* that contains the engine's error text.
C1_EngineFailureIs422 ==
    \A r \in Requests : \A e \in EngineRaised(r) :
        Done(r) =>
            /\ response[r].status_code = HTTP_422_UNPROCESSABLE_ENTITY
            /\ e \in Range(response[r].detail)

\* C2: once a request has returned its response, no scratch file it created
\* is left in the scratch directory.
C2_NoScratchFileAfterResponse ==
    \A r \in Requests : Done(r) => ~ScratchFileLeft(r)

\* C3: a request with an incorrect or a missing bearer token is answered
\* with 401, creates no scratch file and never reaches the engine.
C3_BadTokenIs401 ==
    \A r \in Requests :
        (Done(r) /\ credentials[r] # API_TOKEN) =>
            /\ response[r].status_code = HTTP_401_UNAUTHORIZED
            /\ temp_file[r] = None
            /\ engine_calls[r] = <<>>

\* C4: a request with the correct token and an empty filename is answered
\* with 400; it never creates a scratch file and never reaches the engine.
C4_EmptyFilenameIs400 ==
    \A r \in Requests :
        (pc[r] # "idle" /\ credentials[r] = API_TOKEN /\ file[r].filename = <<>>) =>
            /\ pc[r] \in {"check_filename", "done"}
            /\ Done(r) => response[r].status_code = HTTP_400_BAD_REQUEST
            /\ temp_file[r] = None
            /\ engine_calls[r] = <<>>

C4_Witness ==
    \E r \in Requests :
        /\ Done(r)
        /\ credentials[r] = API_TOKEN
        /\ file[r].filename = <<>>
        /\ response[r].status_code = HTTP_400_BAD_REQUEST

\* C5: correct token, non-empty filename and an engine call that returned:
\* the response is the success body with the input's filename, the byte
\* length of the upload, the engine's text and that text's length.
C5_SuccessBody ==
    \A r \in Requests :
        (/\ Done(r)
         /\ credentials[r] = API_TOKEN
         /\ file[r].filename # <<>>
         /\ EngineReturned(r)) =>
            /\ response[r].status_code = HTTP_200_OK
            /\ response[r].success = TRUE
            /\ response[r].filename = file[r].filename
            /\ response[r].file_size = Len(file[r].content)
            /\ response[r].markdown = result[r].text_content
            /\ response[r].metadata.content_length = Len(response[r].markdown)

\* The errors raised before the engine call: by the read of the upload, by
\* the creation of the scratch file, by the write to it.
StagingErrors ==
    {"read failed", "cannot create temporary file", "No space left on device"}

StagingFailed(r) ==
    /\ exc[r].type = "OSError"
    /\ exc[r].msg[1] \in StagingErrors

\* C6: a failure of the read, of the creation or of the write of the
\* scratch file is answered with 500, the detail carries the error's
\* message, and the engine is not invoked for that request.
C6_StagingFailureIs500 ==
    \A r \in Requests :
        StagingFailed(r) =>
            /\ engine_calls[r] = <<>>
            /\ pc[r] \in {"raise_500", "done"}
            /\ Done(r) =>
                 /\ response[r].status_code = HTTP_500_INTERNAL_SERVER_ERROR
                 /\ \A i \in DOMAIN exc[r].msg :
                        exc[r].msg[i] \in Range(response[r].detail)

C6_Witness ==
    \E r \in Requests :
        /\ Done(r)
        /\ StagingFailed(r)
        /\ exc[r].msg[1] = "No space left on device"
        /\ response[r].status_code = HTTP_500_INTERNAL_SERVER_ERROR

\* C7: a failed deletion of the scratch file does not change the response:
\* after an engine call that returned the caller still receives the success
\* response, after one that raised still the engine's error.
C7_UnlinkFailureNotEscalated ==
    \A r \in Requests :
        (Done(r) /\ UnlinkFailed(r)) =>
            /\ EngineReturned(r) => response[r].status_code = HTTP_200_OK
            /\ \A e \in EngineRaised(r) : e \in Range(response[r].detail)

\* The positions at which a request works with its scratch file.
Staged == {"write", "convert", "unlink", "inner_except"}

\* C8: concurrent requests never work on the same scratch path: while a
\* request is between the creation and the deletion of its scratch file,
\* the file at its path exists and is the one it created, no other request
\* in that window has the same path, and the engine read the request's own
\* bytes from the request's own file.
C8_DistinctScratchFiles ==
    /\ \A r \in Requests :
          pc[r] \in Staged =>
              /\ fs[temp_file[r]].exists
              /\ fs[temp_file[r]].creator = r
    /\ \A r1, r2 \in Requests :
          (r1 # r2 /\ pc[r1] \in Staged /\ pc[r2] \in Staged) =>
              temp_file[r1] # temp_file[r2]
    /\ \A r \in Requests : \A i \in DOMAIN engine_calls[r] :
          /\ engine_calls[r][i].read.exists
          /\ engine_calls[r][i].read.creator = r
          /\ engine_calls[r][i].read.bytes = file[r].content

\* Two requests with the same bytes and filename hold scratch files at the
\* same time, and one of them has been through the engine.
C8_Witness ==
    \E r1, r2 \in Requests :
        /\ r1 # r2
        /\ file[r1] = file[r2]
        /\ pc[r1] = "unlink"
        /\ pc[r2] \in Staged
        /\ temp_file[r1] # temp_file[r2]

Rank(p) ==
    CASE p = "idle" -> 0
      [] p = "check_filename" -> 1
      [] p = "read" -> 2
      [] p = "create" -> 3
      [] p = "write" -> 4
      [] p = "convert" -> 5
      [] p = "unlink" -> 6
      [] p = "inner_except" -> 7
      [] p = "raise_500" -> 8
      [] p = "done" -> 9

\* C9: a request only moves forward through Authenticate, Validate, Stage,
\* Convert, Respond/Cleanup; the engine is invoked at most once, on a
\* scratch file that exists and holds all the upload's bytes; and a request
\* deletes its scratch file only after its engine call.
C9_Step ==
    \A r \in Requests :
        /\ pc'[r] # pc[r] => Rank(pc'[r]) > Rank(pc[r])
        /\ Len(engine_calls'[r]) <= 1
        /\ engine_calls'[r] # engine_calls[r] =>
              /\ pc[r] = "convert"
              /\ temp_file_path[r] = temp_file[r]
              /\ fs[temp_file_path[r]] = ScratchFile(file[r].content, r)
              /\ engine_calls'[r][1].read = fs[temp_file_path[r]]
        /\ (ScratchFileLeft(r) /\ ~ScratchFileLeft(r)') =>
              engine_calls[r] # <<>>

C9_SequentialPipeline == [][C9_Step]_vars

C9_Witness ==
    \E r \in Requests :
        /\ Done(r)
        /\ Len(engine_calls[r]) = 1
        /\ ~fs[temp_file[r]].exists

ErrorLogged(r, text) ==
    \E i \in DOMAIN log[r] :
        /\ log[r][i].level = "error"
        /\ log[r][i].filename = file[r].filename
        /\ log[r][i].msg = <<"Error processing file: ">> \o text

\* C10 as stated: every failed request, the 401 and the 400 included, has a
\* log entry with the filename and the error detail.
C10_EveryFailureLogged ==
    \A r \in Requests :
        (Done(r) /\ response[r].status_code >= HTTP_400_BAD_REQUEST) =>
            \E i \in DOMAIN log[r] :
                /\ log[r][i].level = "error"
                /\ log[r][i].filename = file[r].filename

\* C10 as amended: when a request that passed both guards fails, the log
\* already holds an error entry with the filename and the text of the error
\* at the moment the response is produced; a request rejected by a guard
\* is answered without any error entry.
C10_Step ==
    \A r \in Requests :
        (~Done(r) /\ Done(r)' /\ response'[r].status_code >= HTTP_400_BAD_REQUEST) =>
            IF pc[r] \in {"idle", "check_filename"}
            THEN \A i \in DOMAIN log[r] : log[r][i].level # "error"
            ELSE /\ response'[r].status_code = HTTP_500_INTERNAL_SERVER_ERROR
                 /\ \E text \in {exc[r].msg} :
                       /\ ErrorLogged(r, text)
                       /\ response'[r].detail = <<"Internal server error: ">> \o text

C10_FailuresPastGuardsLogged == [][C10_Step]_vars

C10_Witness ==
    \E r \in Requests :
        /\ Done(r)
        /\ response[r].status_code = HTTP_500_INTERNAL_SERVER_ERROR
        /\ EngineRaised(r) # {}
        /\ Len(log[r]) = 3

====
